---- MODULE Spec2Model ----
(***************************************************************************)
(* Model of create_dataset.py (trusthlt/lacour-qando): the loader          *)
(* load_json_files, the join create_dataframe, the categorizer             *)
(* categorize_opinion, fisher_test and the __main__ driver.                *)
(*                                                                         *)
(* Strings that the code splits, searches or compares with roster names    *)
(* are sequences of one-character strings, so that str.split, str.join     *)
(* and the regular-expression search are computed, not assumed.  Hearing   *)
(* ids and case ids are only ever compared for equality and stay TLA+      *)
(* strings.  The hearing_date columns (lines 147-152) are never read by    *)
(* the join or the test and are left out of the rows.  A frame without     *)
(* records is a frame that has its columns and no rows.                    *)
(***************************************************************************)
EXTENDS Integers, Sequences, FiniteSets, TLC

VARIABLES files, pc, df_webcasts, df_announced, df_reported, df_questions,
          df_opinions, i, values, dataset_file, stdout, error,
          title_text, category

vars == <<files, pc, df_webcasts, df_announced, df_reported, df_questions,
          df_opinions, i, values, dataset_file, stdout, error,
          title_text, category>>

(***************************************************************************)
(* Bounds of the explored inputs.                                          *)
(***************************************************************************)
MaxWebcasts == 2
MaxQuestions == 2
MaxFrags == 3

(***************************************************************************)
(* Character strings.                                                      *)
(***************************************************************************)
sA == <<"A">>
sB == <<"B">>
sC == <<"C">>
sD == <<"D">>
sEmpty == <<>>
sEn == <<"e", "n">>
sFr == <<"f", "r">>
sDe == <<"d", "e">>
sWhy == <<"W", "h", "y", "?">>
sHow == <<"H", "o", "w", "?">>
sListedH1 == <<"B", ",", "A", ",", "C">>
sListedH2 == <<"B", ",", "B", ",", "C">>
sDissenting == <<"D", "i", "s", "s", "e", "n", "t", "i", "n", "g", " ", "o", "p", "i", "n", "i", "o", "n">>
sConcurring == <<"C", "O", "N", "C", "U", "R", "R", "I", "N", "G", " ", "O", "P", "I", "N", "I", "O", "N">>
sStatement == <<"S", "t", "a", "t", "e", "m", "e", "n", "t">>

kwPARTLY == <<"P", "A", "R", "T", "L", "Y">>
kwDISSENTING == <<"D", "I", "S", "S", "E", "N", "T", "I", "N", "G">>
kwCONCURRING == <<"C", "O", "N", "C", "U", "R", "R", "I", "N", "G">>
kwOPINION == <<"O", "P", "I", "N", "I", "O", "N">>

ToSet(s) == {s[k] : k \in 1..Len(s)}

RECURSIVE Concat(_)
Concat(ss) == IF ss = <<>> THEN <<>> ELSE Head(ss) \o Concat(Tail(ss))

SeqsUpTo(S, n) == UNION {[1..k -> S] : k \in 0..n}

(***************************************************************************)
(* categorize_opinion: re.findall(keyword, title_text, re.I) is non-empty  *)
(* iff the keyword occurs in the text, letters compared without case.      *)
(***************************************************************************)
Upper(c) ==
    CASE c = "a" -> "A" [] c = "b" -> "B" [] c = "c" -> "C" [] c = "d" -> "D"
      [] c = "e" -> "E" [] c = "f" -> "F" [] c = "g" -> "G" [] c = "h" -> "H"
      [] c = "i" -> "I" [] c = "j" -> "J" [] c = "k" -> "K" [] c = "l" -> "L"
      [] c = "m" -> "M" [] c = "n" -> "N" [] c = "o" -> "O" [] c = "p" -> "P"
      [] c = "q" -> "Q" [] c = "r" -> "R" [] c = "s" -> "S" [] c = "t" -> "T"
      [] c = "u" -> "U" [] c = "v" -> "V" [] c = "w" -> "W" [] c = "x" -> "X"
      [] c = "y" -> "Y" [] c = "z" -> "Z" [] OTHER -> c

findall(keyword, text) ==
    \E s \in 1..(Len(text) - Len(keyword) + 1) :
        \A j \in 1..Len(keyword) : Upper(text[s + j - 1]) = keyword[j]

categorize_opinion_dissenting_first(text) ==
    IF findall(kwDISSENTING, text) THEN "DISSENTING"
    ELSE IF findall(kwPARTLY, text) THEN "PARTLY"
    ELSE IF findall(kwCONCURRING, text) THEN "CONCURRING"
    ELSE IF findall(kwOPINION, text) THEN "OPINION"
    ELSE "UNKNOWN"

categorize_opinion(text) ==
    IF findall(kwPARTLY, text) THEN "PARTLY"
    ELSE IF findall(kwDISSENTING, text) THEN "DISSENTING"
    ELSE IF findall(kwCONCURRING, text) THEN "CONCURRING"
    ELSE IF findall(kwOPINION, text) THEN "OPINION"
    ELSE "UNKNOWN"

(***************************************************************************)
(* str.join and str.split on ",".                                          *)
(***************************************************************************)
RECURSIVE join(_)
join(names) ==
    IF names = <<>> THEN <<>>
    ELSE IF Len(names) = 1 THEN names[1]
    ELSE names[1] \o <<",">> \o join(Tail(names))

RECURSIVE splitFrom(_, _)
splitFrom(s, cur) ==
    IF s = <<>> THEN <<cur>>
    ELSE IF Head(s) = "," THEN <<cur>> \o splitFrom(Tail(s), <<>>)
    ELSE splitFrom(Tail(s), Append(cur, Head(s)))

split(s) == splitFrom(s, <<>>)

(***************************************************************************)
(* The input files.                                                        *)
(***************************************************************************)
Ids == {"H1", "H2"}

announcedH1 == [webcast_id |-> "H1", judges |-> <<sA, sB, sD>>]
announcedH1short == [webcast_id |-> "H1", judges |-> <<sA>>]
announcedH2 == [webcast_id |-> "H2", judges |-> <<sB>>]

\* judges_from_press.json: no record, one per hearing in either order, and
\* a file with two records for one hearing.
AnnouncedFiles ==
    { <<>>, <<announcedH1>>, <<announcedH2>>,
      <<announcedH1, announcedH2>>, <<announcedH2, announcedH1>>,
      <<announcedH1, announcedH1short, announcedH2>> }

reportedH1 == [webcast_id |-> "H1", listed |-> sListedH1]
reportedH2 == [webcast_id |-> "H2", listed |-> sB]
reportedH2twice == [webcast_id |-> "H2", listed |-> sListedH2]

\* judges_from_judgments.json
ReportedFiles ==
    { <<>>, <<reportedH1>>, <<reportedH2>>,
      <<reportedH1, reportedH2>>, <<reportedH2twice, reportedH1>> }

QuestionRecords ==
    { [webcast_id |-> "H1", name |-> sA, text |-> sWhy, lang |-> sFr],
      [webcast_id |-> "H1", name |-> sA, text |-> sHow, lang |-> sEn],
      [webcast_id |-> "H2", name |-> sC, text |-> sB, lang |-> sDe] }

opinionsH1 ==
    [webcast_id |-> "H1", case_id |-> "C1",
     opinions |-> [n \in {sB} |-> <<sDissenting, sConcurring>>]]
opinionsH2none ==
    [webcast_id |-> "H2", case_id |-> "C2", opinions |-> [n \in {} |-> <<>>]]
opinionsH2 ==
    [webcast_id |-> "H2", case_id |-> "C3",
     opinions |-> [n \in {sB} |-> <<sStatement>>]]

\* opinions_from_judgments.json
OpinionFiles ==
    { <<>>, <<opinionsH1>>, <<opinionsH2none>>, <<opinionsH2>>,
      <<opinionsH1, opinionsH2none>>, <<opinionsH2, opinionsH1>> }

WebcastFiles == SeqsUpTo({[webcast_id |-> w] : w \in Ids}, MaxWebcasts) \ {<<>>}

NoFrame == <<>>
NoError == [raised |-> FALSE, type |-> "", message |-> <<>>]
NoFile == [exists |-> FALSE, rows |-> <<>>]

(***************************************************************************)
(* load_json_files                                                         *)
(***************************************************************************)
isin(w, df) == \E k \in 1..Len(df) : df[k].webcast_id = w

LoadAnnounced(recs) ==
    [k \in 1..Len(recs) |->
        [webcast_id |-> recs[k].webcast_id,
         judges |-> recs[k].judges,
         listed |-> join(recs[k].judges)]]

LoadOpinions(recs, selected) ==
    SelectSeq(recs, LAMBDA r : isin(r.webcast_id, selected))

Load ==
    /\ pc = "load"
    /\ df_webcasts' = files.fwebcasts
    /\ df_questions' = files.fquestions
    /\ df_announced' = LoadAnnounced(files.fannounced)
    /\ df_reported' = files.freported
    /\ df_opinions' = LoadOpinions(files.fopinions, files.fwebcasts)
    /\ i' = 1
    /\ pc' = "join"
    /\ UNCHANGED <<files, values, dataset_file, stdout, error, title_text, category>>

(***************************************************************************)
(* create_dataframe                                                        *)
(***************************************************************************)
loc(df, w_id) == SelectSeq(df, LAMBDA r : r.webcast_id = w_id)

iloc0(rows) == rows[1]

ilocLast(rows) == rows[Len(rows)]

IndexErrorNaming(w_id, source) ==
    [raised |-> TRUE, type |-> "IndexError",
     message |-> <<w_id, source, "single", "positional", "indexer", "is", "out-of-bounds">>]

\* What .iloc[0] raises on an empty selection; pandas is told neither the
\* hearing id nor the frame the selection was made from.
IndexError(w_id, source) ==
    [raised |-> TRUE, type |-> "IndexError",
     message |-> <<"single", "positional", "indexer", "is", "out-of-bounds">>]

set_announced(w_id) == ToSet(split(iloc0(loc(df_announced, w_id)).listed))

set_reported(w_id) == ToSet(split(iloc0(loc(df_reported, w_id)).listed))

participants_union(w_id) == set_announced(w_id) \cup set_reported(w_id)

participants_announced(w_id) == set_announced(w_id)

participants(w_id) == set_announced(w_id) \cap set_reported(w_id)

questions(w_id) ==
    LET sel == loc(df_questions, w_id)
    IN  [k \in 1..Len(sel) |->
            [name |-> sel[k].name, text |-> sel[k].text, lang |-> sel[k].lang]]

opinions(w_id) == iloc0(loc(df_opinions, w_id))

\* p in questions.values: membership in the array of all selected cells.
in_values(p, qs) ==
    \E k \in 1..Len(qs) : qs[k].name = p \/ qs[k].text = p \/ qs[k].lang = p

by_name(qs, p) == SelectSeq(qs, LAMBDA r : r.name = p)

first_question_last(qs, p) == ilocLast(by_name(qs, p))

first_question(qs, p) == iloc0(by_name(qs, p))

default_lang_empty == sEmpty

default_lang == sEn

opinion_type_last(ops) == categorize_opinion(ops[Len(ops)])

opinion_type(ops) == categorize_opinion(ops[1])

\* The first source whose lookup for w_id is empty, in the order the loop
\* body dereferences them (lines 65, 66, 74).
MissingSource(w_id) ==
    IF loc(df_announced, w_id) = <<>> THEN "announced"
    ELSE IF loc(df_reported, w_id) = <<>> THEN "reported"
    ELSE IF loc(df_opinions, w_id) = <<>> THEN "opinions"
    ELSE "none"

\* Line 82 dereferences the first question row named p whenever q holds.
EntryRaises(w_id, p) ==
    /\ in_values(p, questions(w_id))
    /\ by_name(questions(w_id), p) = <<>>

Entry(w_id, p) ==
    LET qs == questions(w_id)
        op == opinions(w_id)
        q == in_values(p, qs)
        o == p \in DOMAIN op.opinions
    IN  [webcast_id |-> w_id,
         name |-> p,
         has_question |-> q,
         has_opinion |-> o,
         language |-> IF q THEN first_question(qs, p).lang ELSE default_lang,
         question |-> IF q THEN first_question(qs, p).text ELSE sEmpty,
         case_id |-> op.case_id,
         opinion |-> IF o THEN op.opinions[p] ELSE sEmpty,
         opinion_type |-> IF o THEN opinion_type(op.opinions[p]) ELSE ""]

\* The orders in which "for p in participants" may visit a set.
Orders(S) ==
    {s \in [1..Cardinality(S) -> S] :
        \A a, b \in 1..Cardinality(S) : a # b => s[a] # s[b]}

HearingRaisesSkipMissing(w_id) ==
    IF MissingSource(w_id) # "none" THEN FALSE
    ELSE \E p \in participants(w_id) : EntryRaises(w_id, p)

HearingRaises(w_id) ==
    IF MissingSource(w_id) # "none" THEN TRUE
    ELSE \E p \in participants(w_id) : EntryRaises(w_id, p)

HearingSource(w_id) ==
    IF MissingSource(w_id) # "none" THEN MissingSource(w_id) ELSE "questions"

HearingRows(w_id, order) ==
    IF MissingSource(w_id) # "none" THEN <<>>
    ELSE [k \in 1..Len(order) |-> Entry(w_id, order[k])]

HearingOrders(w_id) ==
    IF MissingSource(w_id) # "none" THEN {<<>>} ELSE Orders(participants(w_id))

\* One iteration of the loop of line 59 that runs to its end.
JoinHearing ==
    /\ pc = "join"
    /\ i <= Len(df_webcasts)
    /\ LET w_id == df_webcasts[i].webcast_id
       IN  /\ ~HearingRaises(w_id)
           /\ \E order \in HearingOrders(w_id) :
                 values' = values \o HearingRows(w_id, order)
    /\ i' = i + 1
    /\ UNCHANGED <<files, pc, df_webcasts, df_announced, df_reported, df_questions,
                   df_opinions, dataset_file, stdout, error, title_text, category>>

\* One iteration that raises: the exception leaves create_dataframe and
\* __main__; the rows gathered so far stay in the abandoned local list.
JoinHearingRaises ==
    /\ pc = "join"
    /\ i <= Len(df_webcasts)
    /\ LET w_id == df_webcasts[i].webcast_id
       IN  /\ HearingRaises(w_id)
           /\ error' = IndexError(w_id, HearingSource(w_id))
    /\ pc' = "aborted"
    /\ UNCHANGED <<files, df_webcasts, df_announced, df_reported, df_questions,
                   df_opinions, i, values, dataset_file, stdout, title_text, category>>

\* End of the loop, the return of df_qando and to_json of line 180.
Save ==
    /\ pc = "join"
    /\ i > Len(df_webcasts)
    /\ dataset_file' = [exists |-> TRUE, rows |-> values]
    /\ pc' = "fisher"
    /\ UNCHANGED <<files, df_webcasts, df_announced, df_reported, df_questions,
                   df_opinions, i, values, stdout, error, title_text, category>>

(***************************************************************************)
(* fisher_test                                                             *)
(***************************************************************************)
\* pd.crosstab keeps one index entry per value observed in the column.
observed(rows, col) ==
    SelectSeq(<<FALSE, TRUE>>, LAMBDA b : \E k \in 1..Len(rows) : rows[k][col] = b)

count(rows, q, o) ==
    Cardinality({k \in 1..Len(rows) :
                    rows[k].has_question = q /\ rows[k].has_opinion = o})

crosstab(rows) ==
    [index |-> observed(rows, "has_question"),
     columns |-> observed(rows, "has_opinion"),
     cell |-> [q \in BOOLEAN, o \in BOOLEAN |-> count(rows, q, o)]]

shape(table) == <<Len(table.index), Len(table.columns)>>

\* scipy.stats.fisher_exact on a 2x2 table: the sample odds ratio.
odd_ratio(table) ==
    LET c00 == table.cell[FALSE, FALSE]
        c01 == table.cell[FALSE, TRUE]
        c10 == table.cell[TRUE, FALSE]
        c11 == table.cell[TRUE, TRUE]
    IN  IF c10 > 0 /\ c01 > 0
        THEN [kind |-> "ratio", num |-> c00 * c11, den |-> c01 * c10]
        ELSE [kind |-> "inf", num |-> 0, den |-> 0]

Report(table) ==
    << [line |-> "Exact Fisher test odd ratio is :", value |-> odd_ratio(table)],
       [line |-> "Exact Fisher test P-Value is :",
        value |-> [kind |-> "p_value", num |-> 0, den |-> 0]] >>

FisherTest ==
    /\ pc = "fisher"
    /\ shape(crosstab(values)) = <<2, 2>>
    /\ stdout' = Report(crosstab(values))
    /\ pc' = "done"
    /\ UNCHANGED <<files, df_webcasts, df_announced, df_reported, df_questions,
                   df_opinions, i, values, dataset_file, error, title_text, category>>

\* fisher_exact is handed a table that is not 2x2, which it rejects.
FisherTestRaises ==
    /\ pc = "fisher"
    /\ shape(crosstab(values)) # <<2, 2>>
    /\ error' = [raised |-> TRUE, type |-> "ValueError",
                 message |-> <<"The", "input", "table", "must", "be", "of", "shape", "(2, 2)">>]
    /\ pc' = "aborted"
    /\ UNCHANGED <<files, df_webcasts, df_announced, df_reported, df_questions,
                   df_opinions, i, values, dataset_file, stdout, title_text, category>>

(***************************************************************************)
(* The run of __main__.                                                    *)
(***************************************************************************)
Init ==
    /\ files \in [fwebcasts : WebcastFiles,
                  fquestions : SeqsUpTo(QuestionRecords, MaxQuestions),
                  fannounced : AnnouncedFiles,
                  freported : ReportedFiles,
                  fopinions : OpinionFiles]
    /\ pc = "load"
    /\ df_webcasts = NoFrame
    /\ df_announced = NoFrame
    /\ df_reported = NoFrame
    /\ df_questions = NoFrame
    /\ df_opinions = NoFrame
    /\ i = 0
    /\ values = <<>>
    /\ dataset_file = NoFile
    /\ stdout = <<>>
    /\ error = NoError
    /\ title_text = <<>>
    /\ category = ""

Next ==
    \/ Load
    \/ JoinHearing
    \/ JoinHearingRaises
    \/ Save
    \/ FisherTest
    \/ FisherTestRaises

Spec == Init /\ [][Next]_vars

(***************************************************************************)
(* categorize_opinion on its own: title texts put together from pieces     *)
(* of the keywords in either case.                                         *)
(***************************************************************************)
Fragments ==
    { <<"P", "A", "R", "T">>,
      <<"L", "Y", " ">>,
      <<"p", "a", "r", "t", "l", "y", " ">>,
      <<"D", "i", "s", "s", "e", "n", "t", "i", "n", "g", " ">>,
      <<"c", "o", "n", "c", "u", "r", "r", "I", "N", "G", " ">>,
      <<"O", "p", "i", "n", "i", "o", "n">>,
      <<"o", "p", "i", "n">>,
      <<"I", "O", "N", " ">>,
      <<"S", "t", "a", "t", "e", "m", "e", "n", "t", " ">> }

Titles == {Concat(fs) : fs \in SeqsUpTo(Fragments, MaxFrags)}

NoFiles ==
    [fwebcasts |-> <<>>, fquestions |-> <<>>, fannounced |-> <<>>,
     freported |-> <<>>, fopinions |-> <<>>]

InitCat ==
    /\ files = NoFiles
    /\ pc = "categorize"
    /\ df_webcasts = NoFrame
    /\ df_announced = NoFrame
    /\ df_reported = NoFrame
    /\ df_questions = NoFrame
    /\ df_opinions = NoFrame
    /\ i = 0
    /\ values = <<>>
    /\ dataset_file = NoFile
    /\ stdout = <<>>
    /\ error = NoError
    /\ title_text \in Titles
    /\ category = ""

Categorize ==
    /\ pc = "categorize"
    /\ category' = categorize_opinion(title_text)
    /\ pc' = "categorized"
    /\ UNCHANGED <<files, df_webcasts, df_announced, df_reported, df_questions,
                   df_opinions, i, values, dataset_file, stdout, error, title_text>>

NextCat == Categorize

SpecCat == InitCat /\ [][NextCat]_vars

(***************************************************************************)
(* Properties.                                                             *)
(***************************************************************************)
Selected == {df_webcasts[k].webcast_id : k \in 1..Len(df_webcasts)}

Occurrences(w_id) == Cardinality({k \in 1..Len(df_webcasts) : df_webcasts[k].webcast_id = w_id})

RowsOf(w_id) == {k \in 1..Len(values) : values[k].webcast_id = w_id}

\* The roster strings of a hearing as the join reads them: the first
\* matching row of each loaded frame.
AnnouncedString(w_id) == loc(df_announced, w_id)[1].listed

ReportedString(w_id) == loc(df_reported, w_id)[1].listed

\* n is one of the comma-separated pieces of s.
IsPiece(n, s) ==
    /\ \A k \in 1..Len(n) : n[k] # ","
    /\ \E a \in 0..Len(s) :
          /\ a + Len(n) <= Len(s)
          /\ SubSeq(s, a + 1, a + Len(n)) = n
          /\ (a = 0 \/ s[a] = ",")
          /\ (a + Len(n) = Len(s) \/ s[a + Len(n) + 1] = ",")

Pieces(s) == {SubSeq(s, a, b) : a \in 1..(Len(s) + 1), b \in 0..Len(s)}

CommonNames(w_id) ==
    {n \in Pieces(AnnouncedString(w_id)) :
        IsPiece(n, AnnouncedString(w_id)) /\ IsPiece(n, ReportedString(w_id))}

\* C1: every output row's name is a comma-separated piece of both the
\* announced and the reported roster string of the row's hearing; a name
\* found in only one of the two never appears in a row.
C1_ParticipantInBothRosters ==
    \A k \in 1..Len(values) :
        /\ IsPiece(values[k].name, AnnouncedString(values[k].webcast_id))
        /\ IsPiece(values[k].name, ReportedString(values[k].webcast_id))

C1_Witness ==
    \E k \in 1..Len(values) :
        /\ values[k].webcast_id = "H1"
        /\ IsPiece(sD, AnnouncedString("H1")) /\ ~IsPiece(sD, ReportedString("H1"))
        /\ IsPiece(sC, ReportedString("H1")) /\ ~IsPiece(sC, AnnouncedString("H1"))

\* create_dataframe has returned (its result is what line 180 writes).
Completed == dataset_file.exists

AtHearing == pc = "join" /\ i <= Len(df_webcasts)

Named(p, w_id) == \E k \in 1..Len(df_questions) :
    df_questions[k].webcast_id = w_id /\ df_questions[k].name = p

\* C3: for every participant of the hearing being joined, the value the
\* join gives has_question is true iff the participant is the name of one
\* of the hearing's question rows; a match on text or lang does not count.
C3_HasQuestionIffNamed ==
    (AtHearing /\ MissingSource(df_webcasts[i].webcast_id) = "none") =>
        \A p \in participants(df_webcasts[i].webcast_id) :
            in_values(p, questions(df_webcasts[i].webcast_id))
                <=> Named(p, df_webcasts[i].webcast_id)

\* The opinion strings of p in the first opinions record of the hearing.
Authored(w_id, p) == loc(files.fopinions, w_id)[1].opinions[p]

LowerCase == <<"a", "b", "c", "d", "e", "f", "g", "h", "i", "j", "k", "l", "m",
               "n", "o", "p", "q", "r", "s", "t", "u", "v", "w", "x", "y", "z">>

UpperCase == <<"A", "B", "C", "D", "E", "F", "G", "H", "I", "J", "K", "L", "M",
               "N", "O", "P", "Q", "R", "S", "T", "U", "V", "W", "X", "Y", "Z">>

\* a and b are the same character or the two cases of one letter.
SameLetter(a, b) ==
    \/ a = b
    \/ \E k \in 1..26 : {a, b} = {LowerCase[k], UpperCase[k]}

Occurs(keyword, text) ==
    \E a \in 1..Len(text), b \in 1..Len(text) :
        /\ b - a + 1 = Len(keyword)
        /\ \A j \in 1..Len(keyword) : SameLetter(SubSeq(text, a, b)[j], keyword[j])

Priority == <<"PARTLY", "DISSENTING", "CONCURRING", "OPINION">>

Keyword(label) ==
    CASE label = "PARTLY" -> kwPARTLY
      [] label = "DISSENTING" -> kwDISSENTING
      [] label = "CONCURRING" -> kwCONCURRING
      [] label = "OPINION" -> kwOPINION

\* label is the one the priority order assigns to text.
IsLabelOf(label, text) ==
    \/ /\ label = "UNKNOWN"
       /\ \A k \in 1..Len(Priority) : ~Occurs(Keyword(Priority[k]), text)
    \/ \E k \in 1..Len(Priority) :
          /\ label = Priority[k]
          /\ Occurs(Keyword(label), text)
          /\ \A j \in 1..(k - 1) : ~Occurs(Keyword(Priority[j]), text)

\* C4 as stated: a row with has_opinion has as opinion the first opinion
\* string of its participant, a single string, and as opinion_type the
\* category of that string.
C4_OpinionIsFirstString ==
    \A k \in 1..Len(values) :
        values[k].has_opinion =>
            /\ values[k].opinion = Authored(values[k].webcast_id, values[k].name)[1]
            /\ IsLabelOf(values[k].opinion_type,
                         Authored(values[k].webcast_id, values[k].name)[1])

\* C4 amended: a row with has_opinion has as opinion the whole sequence of
\* its participant's opinion strings, and as opinion_type the category of
\* the first string of that sequence.
C4_OpinionIsWholeSequence ==
    \A k \in 1..Len(values) :
        values[k].has_opinion =>
            /\ values[k].opinion = Authored(values[k].webcast_id, values[k].name)
            /\ IsLabelOf(values[k].opinion_type,
                         Authored(values[k].webcast_id, values[k].name)[1])

C4_Witness ==
    \E k \in 1..Len(values) :
        /\ values[k].has_opinion
        /\ Len(values[k].opinion) = 2
        /\ values[k].opinion[1] = sDissenting
        /\ values[k].opinion_type = "DISSENTING"

\* C5: categorize_opinion returns the label of the first keyword in the
\* order PARTLY, DISSENTING, CONCURRING, OPINION that occurs in the text
\* without regard to case, UNKNOWN when none does; a text with PARTLY and
\* any of the other three keywords is labelled PARTLY.
C5_CategorizerPriority ==
    pc = "categorized" =>
        /\ IsLabelOf(category, title_text)
        /\ (/\ Occurs(kwPARTLY, title_text)
            /\ \/ Occurs(kwDISSENTING, title_text)
               \/ Occurs(kwCONCURRING, title_text)
               \/ Occurs(kwOPINION, title_text))
           => category = "PARTLY"

C5_Witness ==
    /\ pc = "categorized"
    /\ Occurs(kwPARTLY, title_text)
    /\ Occurs(kwDISSENTING, title_text)
    /\ Occurs(kwOPINION, title_text)
    /\ category = "PARTLY"

\* The rows give a table with an empty row or column.
Degenerate ==
    /\ values # <<>>
    /\ \/ \A a, b \in 1..Len(values) : values[a].has_question = values[b].has_question
       \/ \A a, b \in 1..Len(values) : values[a].has_opinion = values[b].has_opinion

\* C6: when the output rows give a table with an empty row or column,
\* fisher_test completes and reports an odds ratio of 0 or infinity and a
\* p-value; it does not raise.
C6_DegenerateTableReported ==
    (Completed /\ Degenerate /\ pc # "fisher") =>
        /\ pc = "done"
        /\ Len(stdout) = 2
        /\ \/ stdout[1].value.kind = "inf"
           \/ stdout[1].value.kind = "ratio" /\ stdout[1].value.num = 0

\* A selected hearing lacks a row in one of the three sources.
SelectedMissing == \E k \in 1..Len(df_webcasts) : MissingSource(df_webcasts[k].webcast_id) # "none"

FirstMissing ==
    CHOOSE k \in 1..Len(df_webcasts) :
        /\ MissingSource(df_webcasts[k].webcast_id) # "none"
        /\ \A j \in 1..(k - 1) : MissingSource(df_webcasts[j].webcast_id) = "none"

\* C7: if a selected hearing has no row in the announced roster, the
\* reported roster or the opinions, the run never gets past that hearing:
\* it stops there with an error or earlier, no dataset is written and no
\* Fisher line is printed, however many hearings were joined before.
C7_MissingHearingAborts ==
    (pc # "load" /\ SelectedMissing) =>
        /\ pc \in {"join", "aborted"}
        /\ i <= FirstMissing
        /\ (pc = "aborted" <=> error.raised)
        /\ dataset_file = NoFile
        /\ stdout = <<>>

C7_Witness ==
    /\ pc = "aborted"
    /\ SelectedMissing
    /\ i = FirstMissing
    /\ i = 2
    /\ values # <<>>
    /\ dataset_file = NoFile

Mentions(message, word) == \E k \in 1..Len(message) : message[k] = word

\* The run failed on a hearing that a source lacks.
FailedOnMissing ==
    /\ pc = "aborted"
    /\ i <= Len(df_webcasts)
    /\ MissingSource(df_webcasts[i].webcast_id) # "none"

\* C8 as stated: when the run fails on a hearing missing from a source,
\* the error names the hearing id and the source that lacked it.
C8_ErrorNamesHearingAndSource ==
    FailedOnMissing =>
        /\ Mentions(error.message, df_webcasts[i].webcast_id)
        /\ Mentions(error.message, MissingSource(df_webcasts[i].webcast_id))

\* C8 amended: when the run fails on a hearing missing from a source, the
\* error is the IndexError of the positional lookup, and its message names
\* neither the hearing id nor the source.
C8_ErrorIsBareIndexError ==
    FailedOnMissing =>
        /\ error.type = "IndexError"
        /\ ~Mentions(error.message, df_webcasts[i].webcast_id)
        /\ ~Mentions(error.message, MissingSource(df_webcasts[i].webcast_id))

C8_Witness ==
    /\ FailedOnMissing
    /\ MissingSource(df_webcasts[i].webcast_id) = "opinions"
    /\ error.raised

\* C9: every output row with has_question false has language "en".
C9_DefaultLanguage ==
    \A k \in 1..Len(values) :
        ~values[k].has_question => values[k].language = <<"e", "n">>

C9_Witness ==
    \E k \in 1..Len(values) :
        /\ ~values[k].has_question
        /\ values[k].language = <<"e", "n">>
        /\ \E q \in 1..Len(df_questions) :
              /\ df_questions[q].webcast_id = values[k].webcast_id
              /\ df_questions[q].lang # <<"e", "n">>

\* The positions, in record order, of the question records of p at w_id.
Asked(w_id, p) ==
    {k \in 1..Len(files.fquestions) :
        files.fquestions[k].webcast_id = w_id /\ files.fquestions[k].name = p}

Earliest(S) == CHOOSE k \in S : \A j \in S : k <= j

\* C10: a row of a participant with question records takes question and
\* language from the earliest of them in record order, both from that one
\* record, and the participant has one row per listing of the hearing
\* however many questions there are.
C10_FirstQuestionWins ==
    \A k \in 1..Len(values) :
        Asked(values[k].webcast_id, values[k].name) # {} =>
            LET first == files.fquestions[Earliest(Asked(values[k].webcast_id, values[k].name))]
            IN  /\ values[k].question = first.text
                /\ values[k].language = first.lang
                /\ Cardinality({j \in RowsOf(values[k].webcast_id) : values[j].name = values[k].name})
                      <= Occurrences(values[k].webcast_id)

C10_Witness ==
    \E k \in 1..Len(values) :
        /\ Cardinality(Asked(values[k].webcast_id, values[k].name)) = 2
        /\ \E a, b \in Asked(values[k].webcast_id, values[k].name) :
              /\ a < b
              /\ files.fquestions[a].text # files.fquestions[b].text
              /\ values[k].question = files.fquestions[a].text
              /\ values[k].language = files.fquestions[a].lang

====
